---- MODULE Spec2Model ----
(***************************************************************************)
(* Model of clash_lib/src/proxy/utils: outbound interface selection        *)
(* (mod.rs), the platform socket binder (platform/unix.rs) and the socket  *)
(* factory with its socket-protector indirection (socket_helpers.rs).      *)
(***************************************************************************)
EXTENDS Integers, Sequences, FiniteSets, TLC

(***************************************************************************)
(* Bounds of the model.                                                    *)
(***************************************************************************)
\* interfaces returned by one enumeration
MaxIfaces == 2

\* set_socket_protector calls made by each host thread
MaxSets == 1

\* protect_socket calls made by each caller thread
MaxProtects == 2

(***************************************************************************)
(* Option<T>: None is the empty sequence, Some(x) is <<x>>.                *)
(***************************************************************************)
None == << >>

Some(x) == <<x>>

IsSome(o) == Len(o) = 1

IsNone(o) == Len(o) = 0

(***************************************************************************)
(* Strings are sequences of characters, so that str::contains is computed. *)
(***************************************************************************)
\* str::contains(pat): pat occurs as a contiguous substring of s
Contains(s, pat) ==
    \E i \in 0..(Len(s) - Len(pat)) :
        \A j \in 1..Len(pat) : s[i + j] = pat[j]

STR_TUN == <<"t", "u", "n">>

INTERFACE_PRIORITY ==
    << <<"e", "t", "h">>,
       <<"e", "n">>,
       <<"w", "l", "a", "n">>,
       <<"p", "d", "p", "_", "i", "p">> >>

\* usize::MAX, the rank of a name that matches no priority entry (the largest
\* integer of the model checker stands for the largest usize)
USIZE_MAX == 2147483647

(***************************************************************************)
(* Addresses.  An IPv4 address is its four octets, an IPv6 address its     *)
(* eight 16-bit segments.                                                  *)
(***************************************************************************)
V4(a, b, c, d) == [fam |-> "V4", ip |-> <<a, b, c, d>>]

V6(s1, s2, s8) == [fam |-> "V6", ip |-> <<s1, s2, 0, 0, 0, 0, 0, s8>>]

\* Ipv4Addr::is_loopback: 127.0.0.0/8
V4IsLoopback(ip) == ip[1] = 127

\* Ipv4Addr::is_link_local: 169.254.0.0/16
V4IsLinkLocal(ip) == ip[1] = 169 /\ ip[2] = 254

\* Ipv4Addr::is_unspecified: 0.0.0.0
V4IsUnspecified(ip) == \A i \in 1..4 : ip[i] = 0

\* Ipv6Addr::is_unspecified: ::
V6IsUnspecified(ip) == \A i \in 1..8 : ip[i] = 0

\* Ipv6Addr::is_loopback: ::1
V6IsLoopback(ip) == (\A i \in 1..7 : ip[i] = 0) /\ ip[8] = 1

\* Ipv6Addr::is_multicast: ff00::/8
V6IsMulticast(ip) == ip[1] \div 256 = 255

\* Ipv6Addr::is_unicast_link_local: fe80::/10
V6IsUnicastLinkLocal(ip) == ip[1] \div 64 = 1018

\* Ipv6Addr::is_unique_local: fc00::/7
V6IsUniqueLocal(ip) == ip[1] \div 512 = 126

\* Ipv6Addr::is_documentation: 2001:db8::/32
V6IsDocumentation(ip) == ip[1] = 8193 /\ ip[2] = 3512

\* Ipv6Addr::is_global: none of the special-purpose ranges
V6IsGlobal(ip) ==
    ~ \/ V6IsUnspecified(ip)
      \/ V6IsLoopback(ip)
      \/ (ip[1] = 8193 /\ ip[2] < 512)
      \/ ip[1] = 8194
      \/ V6IsDocumentation(ip)
      \/ V6IsUniqueLocal(ip)
      \/ V6IsUnicastLinkLocal(ip)

\* Ipv6Addr::is_unicast_global
V6IsUnicastGlobal(ip) ==
    /\ ~V6IsMulticast(ip)
    /\ ~V6IsLoopback(ip)
    /\ ~V6IsUnicastLinkLocal(ip)
    /\ ~V6IsUniqueLocal(ip)
    /\ ~V6IsUnspecified(ip)
    /\ ~V6IsDocumentation(ip)

(***************************************************************************)
(* The inputs of one enumeration.                                          *)
(***************************************************************************)
\* 192.168.1.2, 169.254.0.5 (link-local), 2400:cb00::1 (global unicast),
\* ff0e::1 (global-scope multicast: is_global, not is_unicast_global)
AddrPool ==
    { V4(192, 168, 1, 2), V4(169, 254, 0, 5),
      V6(9216, 51968, 1), V6(65294, 0, 1) }

\* the address list of an interface: at most one address of each family, in
\* either order
AddrLists ==
    {<< >>} \cup {<<a>> : a \in AddrPool}
            \cup {p \in AddrPool \X AddrPool : p[1].fam # p[2].fam}

IfNames ==
    { <<"t", "u", "n", "0">>,
      <<"e", "t", "h", "0">>,
      <<"e", "n", "0">>,
      <<"w", "l", "a", "n", "0">>,
      <<"d", "o", "c", "k", "e", "r", "0">> }

RawIfaces == [name : IfNames, addr : AddrLists]

VARIABLES
    showOk,     \* NetworkInterface::show() succeeded
    ifaces,     \* the interfaces it listed
    selPc,      \* "start" | "done": get_outbound_interface has returned
    selected    \* its return value, Option<OutboundInterface>

ifaceVars == <<showOk, ifaces, selPc, selected>>

VARIABLES
    SOCKET_PROTECTOR,   \* the value the ArcSwap points at: Option<Arc<dyn SocketProtector>>
    stores,     \* the protectors stored so far, in the order of the stores
    wpc,        \* per host thread: "idle" | "built" (inside set_socket_protector)
    wnew,       \* per host thread: the Arc::new(Some(protector)) not yet stored
    wleft,      \* per host thread: set_socket_protector calls still to make
    rpc,        \* per caller thread: "idle" | "loaded" | "returned"
    rfd,        \* per caller thread: the fd argument of the call
    rprot,      \* per caller thread: the protector cloned out of the guard
    rret,       \* per caller thread: the value protect_socket returned
    rinv,       \* per caller thread: the handler invocations the call made
    rseen,      \* per caller thread: number of stores that preceded its load
    rleft       \* per caller thread: protect_socket calls still to make

protVars ==
    <<SOCKET_PROTECTOR, stores, wpc, wnew, wleft,
      rpc, rfd, rprot, rret, rinv, rseen, rleft>>

VARIABLES
    os,         \* the target_os the build is for
    dest,       \* how the TCP destination answers: "accepts" | "refuses" | "silent"
    sPc,        \* the factory call: "idle" | "connecting" | "done" | "aborted"
    sCall,      \* the call and its arguments
    sock,       \* the socket the call created
    binds,      \* the bind / bind_device calls made on the socket
    mbCalls,    \* the interfaces passed to must_bind_socket_on_interface
    protSeen,   \* the values protect_socket loaded during the call
    protCalls,  \* the handler invocations the call made
    connects,   \* connect attempts started
    elapsed,    \* seconds since the connect started
    result      \* what the call returned

sockVars ==
    <<os, dest, sPc, sCall, sock, binds, mbCalls, protSeen, protCalls,
      connects, elapsed, result>>

vars == <<ifaceVars, protVars, sockVars>>

(***************************************************************************)
(* get_outbound_ip_from_interface                                          *)
(***************************************************************************)
\* one iteration of the loop body over addr, acc = <<v4, v6>>
ScanStep(acc, addr) ==
    IF addr.fam = "V4"
    THEN IF /\ ~V4IsLoopback(addr.ip)
            /\ ~V4IsLinkLocal(addr.ip)
            /\ ~V4IsUnspecified(addr.ip)
         THEN <<Some(addr.ip), acc[2]>>
         ELSE acc
    ELSE IF V6IsGlobal(addr.ip) /\ ~V6IsUnspecified(addr.ip)
         THEN <<acc[1], Some(addr.ip)>>
         ELSE acc

RECURSIVE ScanFrom(_, _, _)
ScanFrom(addrs, i, acc) ==
    IF i > Len(addrs) THEN acc
    ELSE IF IsSome(acc[1]) /\ IsSome(acc[2]) THEN acc
    ELSE ScanFrom(addrs, i + 1, ScanStep(acc, addrs[i]))

get_outbound_ip_from_interface(iface) == ScanFrom(iface.addr, 1, <<None, None>>)

(***************************************************************************)
(* get_outbound_interface                                                  *)
(***************************************************************************)
\* mutant: the filter keeps the capture interface
FilterMapIface_KeepTun(iface) ==
    LET ips == get_outbound_ip_from_interface(iface)
    IN  IF IsSome(ips[1]) \/ IsSome(ips[2])
        THEN Some([name |-> iface.name, addr_v4 |-> ips[1],
                   addr_v6 |-> ips[2], index |-> iface.index])
        ELSE None

\* the filter_map closure: Some(OutboundInterface) or None
FilterMapIface(iface) ==
    LET ips == get_outbound_ip_from_interface(iface)
    IN  IF ~Contains(iface.name, STR_TUN) /\ (IsSome(ips[1]) \/ IsSome(ips[2]))
        THEN Some([name |-> iface.name, addr_v4 |-> ips[1],
                   addr_v6 |-> ips[2], index |-> iface.index])
        ELSE None

RECURSIVE FilterMapAll(_, _)
FilterMapAll(list, i) ==
    IF i > Len(list) THEN << >>
    ELSE FilterMapIface(list[i]) \o FilterMapAll(list, i + 1)

\* INTERFACE_PRIORITY.iter().position(|x| name.contains(x)).unwrap_or(usize::MAX)
PriorityOf(name) ==
    LET hits == {k \in 1..Len(INTERFACE_PRIORITY) : Contains(name, INTERFACE_PRIORITY[k])}
    IN  IF hits = {} THEN USIZE_MAX
        ELSE (CHOOSE k \in hits : \A m \in hits : k <= m) - 1

\* mutant: the two one-sided IPv6 arms return the opposite ordering
CompareAddrs_V6Last(left, right) ==
    IF IsSome(left.addr_v6) /\ IsNone(right.addr_v6) THEN "Greater"
    ELSE IF IsNone(left.addr_v6) /\ IsSome(right.addr_v6) THEN "Less"
    ELSE IF IsSome(left.addr_v6) /\ IsSome(right.addr_v6)
    THEN IF V6IsUnicastGlobal(left.addr_v6[1]) /\ ~V6IsUnicastGlobal(right.addr_v6[1])
         THEN "Less"
         ELSE IF ~V6IsUnicastGlobal(left.addr_v6[1]) /\ V6IsUnicastGlobal(right.addr_v6[1])
         THEN "Greater"
         ELSE "Tie"
    ELSE "Tie"

\* the address part of the sort_by comparator; "Tie" falls through to the names
CompareAddrs(left, right) ==
    IF IsSome(left.addr_v6) /\ IsNone(right.addr_v6) THEN "Less"
    ELSE IF IsNone(left.addr_v6) /\ IsSome(right.addr_v6) THEN "Greater"
    ELSE IF IsSome(left.addr_v6) /\ IsSome(right.addr_v6)
    THEN IF V6IsUnicastGlobal(left.addr_v6[1]) /\ ~V6IsUnicastGlobal(right.addr_v6[1])
         THEN "Less"
         ELSE IF ~V6IsUnicastGlobal(left.addr_v6[1]) /\ V6IsUnicastGlobal(right.addr_v6[1])
         THEN "Greater"
         ELSE "Tie"
    ELSE "Tie"

\* mutant: right.cmp(&left) instead of left.cmp(&right)
CompareNames_Reversed(left, right) ==
    LET l == PriorityOf(left.name)
        r == PriorityOf(right.name)
    IN  IF r < l THEN "Less" ELSE IF r > l THEN "Greater" ELSE "Equal"

\* usize::cmp of the two priority positions
CompareNames(left, right) ==
    LET l == PriorityOf(left.name)
        r == PriorityOf(right.name)
    IN  IF l < r THEN "Less" ELSE IF l > r THEN "Greater" ELSE "Equal"

\* the sort_by comparator
CompareOutbound(left, right) ==
    LET a == CompareAddrs(left, right)
    IN  IF a = "Tie" THEN CompareNames(left, right) ELSE a

\* slice::sort_by is stable: x goes after every element that is not greater
RECURSIVE InsertSorted(_, _)
InsertSorted(sorted, x) ==
    IF sorted = << >> THEN <<x>>
    ELSE IF CompareOutbound(x, Head(sorted)) = "Less"
         THEN <<x>> \o sorted
         ELSE <<Head(sorted)>> \o InsertSorted(Tail(sorted), x)

RECURSIVE SortFrom(_, _, _)
SortFrom(list, i, acc) ==
    IF i > Len(list) THEN acc
    ELSE SortFrom(list, i + 1, InsertSorted(acc, list[i]))

SortOutbounds(list) == SortFrom(list, 1, << >>)

\* all_outbounds after the sort
AllOutbounds(list) == SortOutbounds(FilterMapAll(list, 1))

\* the value get_outbound_interface returns
SelectOutbound(ok, list) ==
    IF ~ok THEN None
    ELSE LET all == AllOutbounds(list)
         IN  IF all = << >> THEN None ELSE Some(Head(all))

(***************************************************************************)
(* The socket protector: SOCKET_PROTECTOR, set_socket_protector and        *)
(* protect_socket.                                                         *)
(***************************************************************************)
Writers == {"host1", "host2"}

Readers == {"task1", "task2"}

Handlers == {"hA", "hB"}

Fds == {7, 8}

\* an Arc<dyn SocketProtector> is a data pointer and a vtable pointer
Protector(h) == [data |-> h, vtable |-> h]

\* Lazy::new(|| ArcSwap::from_pointee(None))
InitProtector ==
    /\ SOCKET_PROTECTOR = None
    /\ stores = << >>
    /\ wpc = [w \in Writers |-> "idle"]
    /\ wnew = [w \in Writers |-> None]
    /\ rpc = [r \in Readers |-> "idle"]
    /\ rfd = [r \in Readers |-> 0]
    /\ rprot = [r \in Readers |-> None]
    /\ rret = [r \in Readers |-> "none"]
    /\ rinv = [r \in Readers |-> << >>]
    /\ rseen = [r \in Readers |-> 0]

\* set_socket_protector, first half: Arc::new(Some(protector)) builds the new
\* value in memory that no other thread can reach yet
SetBuild(w, h) ==
    /\ wpc[w] = "idle"
    /\ wleft[w] > 0
    /\ wnew' = [wnew EXCEPT ![w] = Some(Protector(h))]
    /\ wpc' = [wpc EXCEPT ![w] = "built"]
    /\ wleft' = [wleft EXCEPT ![w] = @ - 1]
    /\ UNCHANGED <<SOCKET_PROTECTOR, stores, rpc, rfd, rprot, rret, rinv, rseen, rleft,
                   ifaceVars, sockVars>>

\* mutant: the first registration sticks, later stores are dropped
StoredValue_FirstWins(cur, new) == IF IsSome(cur) THEN cur ELSE new

\* ArcSwap::store: the value the ArcSwap holds after storing new over cur
StoredValue(cur, new) == new

\* set_socket_protector, second half: SOCKET_PROTECTOR.store publishes the
\* value with one atomic pointer swap
SetStore(w) ==
    /\ wpc[w] = "built"
    /\ SOCKET_PROTECTOR' = StoredValue(SOCKET_PROTECTOR, wnew[w])
    /\ stores' = Append(stores, wnew[w][1])
    /\ wnew' = [wnew EXCEPT ![w] = None]
    /\ wpc' = [wpc EXCEPT ![w] = "idle"]
    /\ UNCHANGED <<wleft, rpc, rfd, rprot, rret, rinv, rseen, rleft,
                   ifaceVars, sockVars>>

\* mutant: a missing protector is swallowed and the call reports success
ProtectOutcome_Swallow(guard) == "Ok"

\* protect_socket: what the call returns for the loaded value
ProtectOutcome(guard) == IF IsSome(guard) THEN "Ok" ELSE "ProtectorUnset"

\* protect_socket, first half: SOCKET_PROTECTOR.load(), the match that clones
\* the protector or returns the error, drop(guard)
ProtectLoad(r, fd) ==
    /\ rpc[r] = "idle"
    /\ rleft[r] > 0
    /\ rleft' = [rleft EXCEPT ![r] = @ - 1]
    /\ rfd' = [rfd EXCEPT ![r] = fd]
    /\ rseen' = [rseen EXCEPT ![r] = Len(stores)]
    /\ rprot' = [rprot EXCEPT ![r] = SOCKET_PROTECTOR]
    /\ IF IsSome(SOCKET_PROTECTOR)
       THEN /\ rpc' = [rpc EXCEPT ![r] = "loaded"]
            /\ UNCHANGED rret
       ELSE /\ rpc' = [rpc EXCEPT ![r] = "returned"]
            /\ rret' = [rret EXCEPT ![r] = ProtectOutcome(SOCKET_PROTECTOR)]
    /\ UNCHANGED <<SOCKET_PROTECTOR, stores, wpc, wnew, wleft, rinv,
                   ifaceVars, sockVars>>

\* protect_socket, second half: protector.protect(fd); Ok(())
ProtectInvoke(r) ==
    /\ rpc[r] = "loaded"
    /\ rinv' = [rinv EXCEPT ![r] = Append(@, <<rprot[r][1], rfd[r]>>)]
    /\ rret' = [rret EXCEPT ![r] = ProtectOutcome(rprot[r])]
    /\ rpc' = [rpc EXCEPT ![r] = "returned"]
    /\ UNCHANGED <<SOCKET_PROTECTOR, stores, wpc, wnew, wleft, rfd, rprot, rseen, rleft,
                   ifaceVars, sockVars>>

\* the caller thread takes the returned value and is ready for its next call
ProtectReturn(r) ==
    /\ rpc[r] = "returned"
    /\ rpc' = [rpc EXCEPT ![r] = "idle"]
    /\ rfd' = [rfd EXCEPT ![r] = 0]
    /\ rprot' = [rprot EXCEPT ![r] = None]
    /\ rret' = [rret EXCEPT ![r] = "none"]
    /\ rinv' = [rinv EXCEPT ![r] = << >>]
    /\ rseen' = [rseen EXCEPT ![r] = 0]
    /\ UNCHANGED <<SOCKET_PROTECTOR, stores, wpc, wnew, wleft, rleft,
                   ifaceVars, sockVars>>

(***************************************************************************)
(* Interface (mod.rs) and must_bind_socket_on_interface (platform/unix.rs). *)
(***************************************************************************)
\* Interface::IpAddr(Option<Ipv4Addr>, Option<Ipv6Addr>)
IpAddrIface(v4, v6) == [tag |-> "IpAddr", v4 |-> v4, v6 |-> v6]

\* Interface::Name(String)
NameIface(name) == [tag |-> "Name", name |-> name]

SocketAddr(ip, port) == [ip |-> ip, port |-> port]

\* socket2::Socket::new(domain, type, None)
NewSocket(fd, family, type) ==
    [fd |-> fd, family |-> family, type |-> type, open |-> TRUE,
     bound |-> None, device |-> None, mark |-> None,
     keepalive |-> FALSE, ka |-> None,
     nodelay |-> FALSE, nonblocking |-> FALSE, broadcast |-> FALSE]

\* no socket: the descriptor 0 stands for none
NoSocket == [NewSocket(0, "IPV4", "STREAM") EXCEPT !.open = FALSE]

\* the outcome of one step on the socket: what it returned, the socket
\* afterwards and the bind calls it made
Outcome(res, socket, calls) == [res |-> res, sock |-> socket, binds |-> calls]

\* socket.bind(addr): the OS accepts the bind (ok) or refuses it
SockBind(socket, addr, ok) ==
    Outcome(IF ok THEN "Ok" ELSE "OsSocketError",
            IF ok THEN [socket EXCEPT !.bound = Some(addr)] ELSE socket,
            <<[call |-> "bind", to |-> addr]>>)

\* socket.bind_device(Some(name)): the OS accepts it (ok) or refuses it
SockBindDevice(socket, name, ok) ==
    Outcome(IF ok THEN "Ok" ELSE "OsSocketError",
            IF ok THEN [socket EXCEPT !.device = Some(name)] ELSE socket,
            <<[call |-> "bind_device", to |-> name]>>)

\* cfg(any(target_os = "android", "fuchsia", "linux"))
HasBindDevice == os \in {"android", "linux"}

\* mutant: a missing component binds the wildcard address instead of failing
must_bind_socket_on_interface_Wildcard(socket, iface, family, ok) ==
    IF iface.tag = "IpAddr"
    THEN IF family = "IPV4"
         THEN SockBind(socket,
                       SocketAddr(IF IsNone(iface.v4) THEN <<0, 0, 0, 0>>
                                  ELSE iface.v4[1], 0), ok)
         ELSE SockBind(socket,
                       SocketAddr(IF IsNone(iface.v6) THEN <<0, 0, 0, 0, 0, 0, 0, 0>>
                                  ELSE iface.v6[1], 0), ok)
    ELSE IF HasBindDevice
         THEN SockBindDevice(socket, iface.name, ok)
         ELSE Outcome("UnsupportedPlatform", socket, << >>)

must_bind_socket_on_interface(socket, iface, family, ok) ==
    IF iface.tag = "IpAddr"
    THEN IF family = "IPV4"
         THEN IF IsNone(iface.v4)
              THEN Outcome("AddressUnavailable", socket, << >>)
              ELSE SockBind(socket, SocketAddr(iface.v4[1], 0), ok)
         ELSE IF IsNone(iface.v6)
              THEN Outcome("AddressUnavailable", socket, << >>)
              ELSE SockBind(socket, SocketAddr(iface.v6[1], 0), ok)
    ELSE IF HasBindDevice
         THEN SockBindDevice(socket, iface.name, ok)
         ELSE Outcome("UnsupportedPlatform", socket, << >>)

(***************************************************************************)
(* The socket factory (socket_helpers.rs).  A call runs its synchronous    *)
(* part as a chain of steps over a context; a step that fails ends the     *)
(* chain with its error, and the socket is dropped.                        *)
(***************************************************************************)
\* Duration::from_secs(10) of the connect timeout
CONNECT_TIMEOUT_SECS == 10

\* TcpKeepalive with_time / with_interval / with_retries
KEEPALIVE_TIME_SECS == 10

KEEPALIVE_INTERVAL_SECS == 1

KEEPALIVE_RETRIES == 3

Platforms == {"linux", "android", "macos"}

Destinations == {"accepts", "refuses", "silent"}

\* the OS call that fails during the call, if any
FailPoints == {"none", "socket", "bind", "mark", "opts"}

\* 93.184.216.34:443 and [2606:2800::1]:443
Endpoints ==
    { SocketAddr(<<93, 184, 216, 34>>, 443),
      SocketAddr(<<9734, 10240, 0, 0, 0, 0, 0, 1>>, 443) }

\* 192.168.1.2:5353 and [2400:cb00::1]:5353
LocalAddrs ==
    { SocketAddr(<<192, 168, 1, 2>>, 5353),
      SocketAddr(<<9216, 51968, 0, 0, 0, 0, 0, 1>>, 5353) }

Interfaces ==
    { IpAddrIface(v4, v6) :
          v4 \in {None, Some(<<192, 168, 1, 2>>)},
          v6 \in {None, Some(<<9216, 51968, 0, 0, 0, 0, 0, 1>>)} }
    \cup {NameIface(<<"e", "t", "h", "0">>)}

IfaceArgs == {None} \cup {Some(i) : i \in Interfaces}

SoMarks == {None, Some(255)}

\* SocketAddr::is_ipv4
IsIpv4(addr) == Len(addr.ip) = 4

FamilyOf(addr) == IF IsIpv4(addr) THEN "IPV4" ELSE "IPV6"

\* the context a call threads through its steps
Ctx(res, socket, bs, mbs, seen, calls) ==
    [res |-> res, sock |-> socket, binds |-> bs, mbCalls |-> mbs,
     protSeen |-> seen, protCalls |-> calls]

\* the step has failed: `?` returns the error
Failed(c, res) == [c EXCEPT !.res = res]

\* must_bind_socket_on_interface(&socket, &iface, family)?
BindOnInterface(c, iface, fail) ==
    LET o == must_bind_socket_on_interface(c.sock, iface, c.sock.family,
                                            fail # "bind")
        c1 == [c EXCEPT !.sock = o.sock,
                        !.binds = @ \o o.binds,
                        !.mbCalls = Append(@, iface)]
    IN  IF o.res = "Ok" THEN c1 ELSE Failed(c1, o.res)

\* socket.bind(&src.into())?
BindDirect(c, src, fail) ==
    LET o == SockBind(c.sock, src, fail # "bind")
        c1 == [c EXCEPT !.sock = o.sock, !.binds = @ \o o.binds]
    IN  IF o.res = "Ok" THEN c1 ELSE Failed(c1, o.res)

\* cfg(target_os = "android"):
\* protect_socket(socket.as_raw_fd()).expect("empty socket protector")
ProtectStep(c) ==
    LET guard == SOCKET_PROTECTOR
        c1 == [c EXCEPT !.protSeen = Append(@, guard)]
    IN  IF ProtectOutcome(guard) = "Ok"
        THEN [c1 EXCEPT !.protCalls = Append(@, <<guard[1], c.sock.fd>>)]
        ELSE Failed(c1, "Panic")

\* cfg(target_os = "linux"): if let Some(so_mark) = so_mark { set_mark(so_mark)? }
MarkStep(c, so_mark, fail) ==
    IF os = "linux" /\ IsSome(so_mark)
    THEN IF fail = "mark" THEN Failed(c, "OsSocketError")
         ELSE [c EXCEPT !.sock.mark = so_mark]
    ELSE c

\* mutant: set_nodelay is left out
TcpOptsStep_NoNodelay(c, fail) ==
    IF fail = "opts" THEN Failed(c, "OsSocketError")
    ELSE [c EXCEPT !.sock.keepalive = TRUE, !.sock.nonblocking = TRUE]

\* set_keepalive(true)?; set_nodelay(true)?; set_nonblocking(true)?
TcpOptsStep(c, fail) ==
    IF fail = "opts" THEN Failed(c, "OsSocketError")
    ELSE [c EXCEPT !.sock.keepalive = TRUE, !.sock.nodelay = TRUE,
                   !.sock.nonblocking = TRUE]

\* set_broadcast(true)?; set_nonblocking(true)?
UdpOptsStep(c, fail) ==
    IF fail = "opts" THEN Failed(c, "OsSocketError")
    ELSE [c EXCEPT !.sock.broadcast = TRUE, !.sock.nonblocking = TRUE]

\* run step only while no earlier step has failed
Then(c, next) == IF c.res = "Running" THEN next ELSE c

\* socket2::Socket::new(domain, type, None)?: a failure returns before any
\* socket exists
CreateStep(fd, family, type, fail) ==
    IF fail = "socket"
    THEN Ctx("OsSocketError", NoSocket, << >>, << >>, << >>, << >>)
    ELSE Ctx("Running", NewSocket(fd, family, type), << >>, << >>, << >>, << >>)

\* new_tcp_stream up to the connect: bind or protect, mark, options
TcpSetup(endpoint, iface, so_mark, fd, fail) ==
    LET c0 == CreateStep(fd, FamilyOf(endpoint), "STREAM", fail)
        c1 == Then(c0, IF os = "android" THEN ProtectStep(c0)
                       ELSE IF IsSome(iface)
                            THEN BindOnInterface(c0, iface[1], fail)
                            ELSE c0)
        c2 == Then(c1, MarkStep(c1, so_mark, fail))
    IN  Then(c2, TcpOptsStep(c2, fail))

\* mutant: with both a local address and an interface, the address is bound
UdpBindStep_SrcFirst(c, src, iface, fail) ==
    IF IsSome(src) THEN BindDirect(c, src[1], fail)
    ELSE IF IsSome(iface) THEN BindOnInterface(c, iface[1], fail)
    ELSE c

\* cfg(not(target_os = "android")): match (src, iface)
UdpBindStep(c, src, iface, fail) ==
    IF IsSome(src) /\ IsSome(iface) THEN BindOnInterface(c, iface[1], fail)
    ELSE IF IsSome(src) THEN BindDirect(c, src[1], fail)
    ELSE IF IsSome(iface) THEN BindOnInterface(c, iface[1], fail)
    ELSE c

\* new_udp_socket up to UdpSocket::from_std
UdpSetup(src, iface, so_mark, fd, fail) ==
    LET family == IF IsSome(src) THEN FamilyOf(src[1]) ELSE "IPV4"
        c0 == CreateStep(fd, family, "DGRAM", fail)
        c1 == Then(c0, IF os = "android" THEN ProtectStep(c0)
                       ELSE UdpBindStep(c0, src, iface, fail))
        c2 == Then(c1, MarkStep(c1, so_mark, fail))
    IN  Then(c2, UdpOptsStep(c2, fail))

\* the socket is dropped: its descriptor is closed
Dropped(socket) == [socket EXCEPT !.open = FALSE]

NoCall == [fn |-> "none"]

\* no factory call is made
NoFactoryCall ==
    /\ os = "linux"
    /\ dest = "silent"
    /\ sPc = "done"
    /\ sCall = NoCall
    /\ sock = NoSocket
    /\ binds = << >>
    /\ mbCalls = << >>
    /\ protSeen = << >>
    /\ protCalls = << >>
    /\ connects = 0
    /\ elapsed = 0
    /\ result = "none"

\* the context's effects become the state of the call
Publish(c) ==
    /\ binds' = c.binds
    /\ mbCalls' = c.mbCalls
    /\ protSeen' = c.protSeen
    /\ protCalls' = c.protCalls

\* new_tcp_stream from its entry to the await of the connect
TcpStart(endpoint, iface, so_mark, fd, fail) ==
    LET c == TcpSetup(endpoint, iface, so_mark, fd, fail)
    IN  /\ sPc = "idle"
        /\ sCall' = [fn |-> "tcp", endpoint |-> endpoint, iface |-> iface,
                     so_mark |-> so_mark]
        /\ Publish(c)
        /\ IF c.res = "Running"
           THEN /\ sPc' = "connecting"
                /\ sock' = c.sock
                /\ connects' = connects + 1
                /\ UNCHANGED result
           ELSE /\ sPc' = IF c.res = "Panic" THEN "aborted" ELSE "done"
                /\ sock' = Dropped(c.sock)
                /\ result' = c.res
                /\ UNCHANGED connects
        /\ UNCHANGED <<os, dest, elapsed, protVars, ifaceVars>>

\* mutant: the deadline fires one second early
DeadlineExpired_Early(e) == e >= CONNECT_TIMEOUT_SECS - 1

\* the Sleep of timeout(Duration::from_secs(10), ..) has elapsed
DeadlineExpired(e) == e >= CONNECT_TIMEOUT_SECS

\* a second passes while the connect is pending
Tick ==
    /\ sPc = "connecting"
    /\ ~DeadlineExpired(elapsed)
    /\ elapsed' = elapsed + 1
    /\ UNCHANGED <<os, dest, sPc, sCall, sock, binds, mbCalls, protSeen,
                   protCalls, connects, result, protVars, ifaceVars>>

\* the destination accepts: the connect future resolves to the stream
ConnectOk ==
    /\ sPc = "connecting"
    /\ dest = "accepts"
    /\ sPc' = "done"
    /\ result' = "Ok"
    /\ UNCHANGED <<os, dest, sCall, sock, binds, mbCalls, protSeen, protCalls,
                   connects, elapsed, protVars, ifaceVars>>

\* the destination refuses: the connect future resolves to the OS error
ConnectRefused ==
    /\ sPc = "connecting"
    /\ dest = "refuses"
    /\ sPc' = "done"
    /\ result' = "ConnectionRefused"
    /\ sock' = Dropped(sock)
    /\ UNCHANGED <<os, dest, sCall, binds, mbCalls, protSeen, protCalls,
                   connects, elapsed, protVars, ifaceVars>>

\* timeout(..).await?: the deadline passes first, the connect future and the
\* socket it owns are dropped, Elapsed is returned as the error
ConnectTimeout ==
    /\ sPc = "connecting"
    /\ DeadlineExpired(elapsed)
    /\ sPc' = "done"
    /\ result' = "ConnectTimeout"
    /\ sock' = Dropped(sock)
    /\ UNCHANGED <<os, dest, sCall, binds, mbCalls, protSeen, protCalls,
                   connects, elapsed, protVars, ifaceVars>>

\* new_udp_socket, the whole call
UdpSocketCall(src, iface, so_mark, fd, fail) ==
    LET c == UdpSetup(src, iface, so_mark, fd, fail)
    IN  /\ sPc = "idle"
        /\ sCall' = [fn |-> "udp", src |-> src, iface |-> iface,
                     so_mark |-> so_mark]
        /\ Publish(c)
        /\ sPc' = IF c.res = "Panic" THEN "aborted" ELSE "done"
        /\ IF c.res = "Running"
           THEN sock' = c.sock /\ result' = "Ok"
           ELSE sock' = Dropped(c.sock) /\ result' = c.res
        /\ UNCHANGED <<os, dest, connects, elapsed, protVars, ifaceVars>>

\* apply_tcp_options(s) on the stream a new_tcp_stream call returned
\* (the cfg(not(target_os = "windows")) arm)
apply_tcp_options(ok) ==
    /\ sPc = "done"
    /\ sCall.fn = "tcp"
    /\ result = "Ok"
    /\ sock.open
    /\ IsNone(sock.ka)
    /\ IF ok
       THEN sock' = [sock EXCEPT !.keepalive = TRUE,
                                 !.ka = Some([time |-> KEEPALIVE_TIME_SECS,
                                              interval |-> KEEPALIVE_INTERVAL_SECS,
                                              retries |-> KEEPALIVE_RETRIES])]
       ELSE sock' = Dropped(sock)
    /\ UNCHANGED <<os, dest, sPc, sCall, binds, mbCalls, protSeen, protCalls,
                   connects, elapsed, result, protVars, ifaceVars>>

(***************************************************************************)
(* The specifications.                                                     *)
(***************************************************************************)
\* no thread calls into the protector
NoProtectorCalls ==
    /\ wleft = [w \in Writers |-> 0]
    /\ rleft = [r \in Readers |-> 0]

\* no enumeration is requested
NoSelection ==
    /\ showOk = FALSE
    /\ ifaces = << >>
    /\ selPc = "done"
    /\ selected = None

InitIface ==
    /\ showOk \in BOOLEAN
    /\ ifaces = << >>
    /\ selPc = "start"
    /\ selected = None
    /\ InitProtector
    /\ NoProtectorCalls
    /\ NoFactoryCall

\* the host brings up one more interface before the enumeration; the OS
\* numbers the interfaces it lists
InterfaceUp ==
    /\ selPc = "start"
    /\ showOk
    /\ Len(ifaces) < MaxIfaces
    /\ \E raw \in RawIfaces :
           ifaces' = Append(ifaces, [name |-> raw.name, addr |-> raw.addr,
                                     index |-> Len(ifaces) + 1])
    /\ UNCHANGED <<showOk, selPc, selected, protVars, sockVars>>

get_outbound_interface ==
    /\ selPc = "start"
    /\ selected' = SelectOutbound(showOk, ifaces)
    /\ selPc' = "done"
    /\ UNCHANGED <<showOk, ifaces, protVars, sockVars>>

NextIface == InterfaceUp \/ get_outbound_interface

SpecIface == InitIface /\ [][NextIface]_vars

InitProtect ==
    /\ NoSelection
    /\ InitProtector
    /\ wleft = [w \in Writers |-> MaxSets]
    /\ rleft = [r \in Readers |-> MaxProtects]
    /\ NoFactoryCall

NextProtect ==
    \/ \E w \in Writers, h \in Handlers : SetBuild(w, h)
    \/ \E w \in Writers : SetStore(w)
    \/ \E r \in Readers, fd \in Fds : ProtectLoad(r, fd)
    \/ \E r \in Readers : ProtectInvoke(r)
    \/ \E r \in Readers : ProtectReturn(r)

SpecProtect == InitProtect /\ [][NextProtect]_vars

\* one host thread may register a protector while one task uses the factory
InitSocket ==
    /\ NoSelection
    /\ InitProtector
    /\ wleft = [w \in Writers |-> IF w = "host1" THEN MaxSets ELSE 0]
    /\ rleft = [r \in Readers |-> 0]
    /\ os \in Platforms
    /\ dest \in Destinations
    /\ sPc = "idle"
    /\ sCall = NoCall
    /\ sock = NoSocket
    /\ binds = << >>
    /\ mbCalls = << >>
    /\ protSeen = << >>
    /\ protCalls = << >>
    /\ connects = 0
    /\ elapsed = 0
    /\ result = "none"

NextSocket ==
    \/ \E h \in Handlers : SetBuild("host1", h)
    \/ SetStore("host1")
    \/ /\ sPc = "idle"
       /\ \E e \in Endpoints, i \in IfaceArgs, m \in SoMarks, fd \in Fds,
             f \in FailPoints :
              TcpStart(e, i, m, fd, f)
    \/ Tick
    \/ ConnectOk
    \/ ConnectRefused
    \/ ConnectTimeout
    \/ /\ sPc = "idle"
       /\ \E s \in {None} \cup {Some(a) : a \in LocalAddrs}, i \in IfaceArgs,
             m \in SoMarks, fd \in Fds, f \in FailPoints :
              UdpSocketCall(s, i, m, fd, f)
    \/ \E ok \in BOOLEAN : apply_tcp_options(ok)

SpecSocket == InitSocket /\ [][NextSocket]_vars

\* the runtime's clock advances and its timer fires
LiveSocket == SpecSocket /\ WF_vars(Tick) /\ WF_vars(ConnectTimeout)

(***************************************************************************)
(* Properties of the interface selection.                                  *)
(***************************************************************************)
IfaceIdx == 1..Len(ifaces)

\* the interface's name contains "tun"
IsTun(iface) == Contains(iface.name, STR_TUN)

\* the interface carries a usable IPv4 address
HasUsableV4(iface) ==
    \E k \in 1..Len(iface.addr) :
        /\ iface.addr[k].fam = "V4"
        /\ ~V4IsLoopback(iface.addr[k].ip)
        /\ ~V4IsLinkLocal(iface.addr[k].ip)
        /\ ~V4IsUnspecified(iface.addr[k].ip)

\* the interface carries a globally-routable IPv6 address
HasGlobalV6(iface) ==
    \E k \in 1..Len(iface.addr) :
        /\ iface.addr[k].fam = "V6"
        /\ V6IsGlobal(iface.addr[k].ip)
        /\ ~V6IsUnspecified(iface.addr[k].ip)

HasUsableAddr(iface) == HasUsableV4(iface) \/ HasGlobalV6(iface)

\* the enumerated interface the returned value was built from
SelectedIs(i) ==
    /\ IsSome(selected)
    /\ selected[1].index = i
    /\ selected[1].name = ifaces[i].name

\* C1: get_outbound_interface never returns an interface whose name contains
\* "tun", whatever the addresses; when every interface with a usable address
\* is a "tun" interface it returns None.
C1_TunNeverSelected ==
    selPc = "done" =>
        /\ IsSome(selected) => ~Contains(selected[1].name, STR_TUN)
        /\ (\A i \in IfaceIdx : HasUsableAddr(ifaces[i]) => IsTun(ifaces[i]))
               => selected = None

\* a "tun" interface with a global IPv6 address was listed first, next to
\* another usable interface, and the call returned the other one
C1_Witness ==
    /\ selPc = "done"
    /\ Len(ifaces) >= 2
    /\ IsTun(ifaces[1]) /\ HasGlobalV6(ifaces[1])
    /\ IsSome(selected)
    /\ selected[1].index = 2

\* C2 as stated: whenever some interface has a globally-routable IPv6 address
\* and some interface has none, the returned interface has addr_v6 present.
C2_Original ==
    (/\ selPc = "done"
     /\ \E i \in IfaceIdx : HasGlobalV6(ifaces[i])
     /\ \E j \in IfaceIdx : ~HasGlobalV6(ifaces[j]))
        => IsSome(selected) /\ IsSome(selected[1].addr_v6)

\* C2 amended: whenever some interface whose name does not contain "tun" has a
\* globally-routable IPv6 address (and some interface has none), the call
\* returns one of the enumerated non-"tun" interfaces that carry such an
\* address, with addr_v6 present.
C2_V6First ==
    (/\ selPc = "done"
     /\ \E i \in IfaceIdx : HasGlobalV6(ifaces[i]) /\ ~IsTun(ifaces[i])
     /\ \E j \in IfaceIdx : ~HasGlobalV6(ifaces[j]))
        => /\ IsSome(selected)
           /\ IsSome(selected[1].addr_v6)
           /\ \E i \in IfaceIdx :
                  SelectedIs(i) /\ HasGlobalV6(ifaces[i]) /\ ~IsTun(ifaces[i])

\* a usable interface without IPv6 was listed before the IPv6-capable one,
\* and the IPv6-capable one was returned
C2_Witness ==
    /\ selPc = "done"
    /\ Len(ifaces) >= 2
    /\ ~IsTun(ifaces[1]) /\ HasUsableV4(ifaces[1]) /\ ~HasGlobalV6(ifaces[1])
    /\ HasGlobalV6(ifaces[2])
    /\ SelectedIs(2)

\* the IPv6 address the scan records for the interface
RecordedV6(iface) == get_outbound_ip_from_interface(iface)[2]

\* equally-ranked addresses: same IPv6 presence, same unicast-global status
SameAddrRank(a, b) ==
    LET va == RecordedV6(a)
        vb == RecordedV6(b)
    IN  /\ IsSome(va) <=> IsSome(vb)
        /\ IsSome(va) /\ IsSome(vb)
               => (V6IsUnicastGlobal(va[1]) <=> V6IsUnicastGlobal(vb[1]))

\* position of the first priority entry the name contains, usize::MAX if none
NameRank(iface) ==
    IF Contains(iface.name, <<"e", "t", "h">>) THEN 0
    ELSE IF Contains(iface.name, <<"e", "n">>) THEN 1
    ELSE IF Contains(iface.name, <<"w", "l", "a", "n">>) THEN 2
    ELSE IF Contains(iface.name, <<"p", "d", "p", "_", "i", "p">>) THEN 3
    ELSE USIZE_MAX

\* the interface passes the filter of step 3
Survives(iface) == ~IsTun(iface) /\ HasUsableAddr(iface)

WLAN0 == <<"w", "l", "a", "n", "0">>

ETH0 == <<"e", "t", "h", "0">>

\* [wlan0 with usable v4 and no v6, eth0 with usable v4 and no v6]
WlanThenEth ==
    /\ Len(ifaces) = 2
    /\ ifaces[1].name = WLAN0 /\ ifaces[2].name = ETH0
    /\ \A i \in IfaceIdx : HasUsableV4(ifaces[i]) /\ ~HasGlobalV6(ifaces[i])

\* C3 as stated: of two interfaces with equally-ranked addresses, the one
\* matching a later priority entry (or none) is not the one selected.
C3_Original ==
    selPc = "done" =>
        \A j \in IfaceIdx :
            SelectedIs(j) =>
                \A i \in IfaceIdx :
                    ~ /\ SameAddrRank(ifaces[i], ifaces[j])
                      /\ NameRank(ifaces[i]) < NameRank(ifaces[j])

\* C3 amended: of two interfaces that both pass the filter (name without
\* "tun", at least one usable address) and have equally-ranked addresses, the
\* one matching a later priority entry (or none) is never the one selected;
\* for [wlan0, eth0], both with usable v4 and no v6, eth0 is returned.
C3_PriorityTieBreak ==
    selPc = "done" =>
        /\ (\E i \in IfaceIdx : Survives(ifaces[i])) => IsSome(selected)
        /\ \A j \in IfaceIdx :
               SelectedIs(j) =>
                   \A i \in IfaceIdx :
                       ~ /\ Survives(ifaces[i]) /\ Survives(ifaces[j])
                         /\ SameAddrRank(ifaces[i], ifaces[j])
                         /\ NameRank(ifaces[i]) < NameRank(ifaces[j])
        /\ WlanThenEth => SelectedIs(2) /\ selected[1].name = ETH0

\* wlan0 listed before eth0, both with usable v4 only, and eth0 returned
C3_Witness ==
    /\ selPc = "done"
    /\ WlanThenEth
    /\ SelectedIs(2)

(***************************************************************************)
(* Properties of the socket protector.                                     *)
(***************************************************************************)
\* the protect_socket call of thread r has returned
Returned(r) == rpc[r] = "returned"

\* C4: a protect_socket(fd) whose load no store preceded returns the
\* ProtectorUnset error and invokes no handler; one whose load follows a
\* completed set_socket_protector invokes the handler registered at that
\* moment exactly once, with its own fd, returns Ok and never ProtectorUnset.
C4_ProtectAfterSet ==
    \A r \in Readers :
        /\ (Returned(r) /\ rseen[r] = 0)
               => rret[r] = "ProtectorUnset" /\ rinv[r] = << >>
        /\ (Returned(r) /\ rseen[r] > 0)
               => /\ rret[r] = "Ok"
                  /\ rinv[r] = << <<stores[rseen[r]], rfd[r]>> >>
        /\ rpc[r] = "loaded" => rseen[r] > 0 /\ rinv[r] = << >>

\* one call returned the error before any store, another one ran after a
\* store and invoked the handler
C4_Witness ==
    /\ Returned("task1") /\ rret["task1"] = "ProtectorUnset"
    /\ Returned("task2") /\ rret["task2"] = "Ok"
    /\ Len(rinv["task2"]) = 1

\* the trait object is whole: data and vtable belong to the same protector
Whole(p) == p.data = p.vtable

AllWritersDone == \A w \in Writers : wpc[w] = "idle" /\ wleft[w] = 0

\* C7: under every interleaving a protect_socket call returns ProtectorUnset
\* only when no store preceded its load, and otherwise invokes exactly one
\* handler, whole and stored by some set_socket_protector call; once all
\* writers have finished the ArcSwap holds the last store, and every call
\* that loads from then on invokes it.
C7_AtomicSwap ==
    /\ \A r \in Readers :
           /\ rpc[r] \in {"loaded", "returned"} =>
                  /\ rseen[r] = 0 <=> IsNone(rprot[r])
                  /\ IsSome(rprot[r]) =>
                         /\ Whole(rprot[r][1])
                         /\ \E k \in 1..Len(stores) : stores[k] = rprot[r][1]
           /\ Returned(r) =>
                  IF IsNone(rprot[r])
                  THEN rret[r] = "ProtectorUnset" /\ rinv[r] = << >>
                  ELSE rret[r] = "Ok" /\ rinv[r] = << <<rprot[r][1], rfd[r]>> >>
    /\ AllWritersDone =>
           /\ SOCKET_PROTECTOR = Some(stores[Len(stores)])
           /\ \A r \in Readers :
                  (rpc[r] \in {"loaded", "returned"} /\ rseen[r] = Len(stores))
                      => rprot[r] = Some(stores[Len(stores)])

\* two different protectors were stored, and a call that loaded after the
\* second store invoked the second one
C7_Witness ==
    /\ AllWritersDone
    /\ Len(stores) >= 2
    /\ stores[1] # stores[Len(stores)]
    /\ \E r \in Readers :
           /\ Returned(r)
           /\ rseen[r] = Len(stores)
           /\ rinv[r] = << <<stores[Len(stores)], rfd[r]>> >>

(***************************************************************************)
(* Properties of the socket factory and the binder.                        *)
(***************************************************************************)
\* a factory call was made and a socket was created for it
CallMade(fn) == sCall.fn = fn /\ sock.fd # 0

\* C5: on Android, new_tcp_stream and new_udp_socket called while no
\* protector is registered return the ProtectorUnset error; the process is
\* not aborted and the socket is neither configured nor connected.
C5_ProtectorUnsetReturned ==
    (/\ os = "android"
     /\ sCall.fn \in {"tcp", "udp"}
     /\ protSeen = <<None>>)
        => /\ sPc = "done"
           /\ result = "ProtectorUnset"
           /\ connects = 0
           /\ ~sock.nonblocking

\* the component of an IpAddr interface for a family
Component(iface, family) == IF family = "IPV4" THEN iface.v4 ELSE iface.v6

\* C6: must_bind_socket_on_interface with an Interface::IpAddr whose
\* component for the requested family is absent returns AddressUnavailable
\* and makes no bind call; when the component is present it makes exactly one
\* bind call, to that address with port 0.
C6_AddressUnavailable ==
    (sPc # "idle" /\ mbCalls # << >> /\ mbCalls[1].tag = "IpAddr") =>
        LET comp == Component(mbCalls[1], sock.family)
        IN  IF IsNone(comp)
            THEN /\ sPc = "done"
                 /\ result = "AddressUnavailable"
                 /\ binds = << >>
                 /\ IsNone(sock.bound)
            ELSE /\ binds = <<[call |-> "bind", to |-> SocketAddr(comp[1], 0)]>>
                 /\ result # "AddressUnavailable"
                 /\ sock.bound \in {None, Some(SocketAddr(comp[1], 0))}
                 /\ result = "Ok" => IsSome(sock.bound)

\* an IPv4 socket was handed an interface with only an IPv6 address
C6_Witness ==
    /\ sPc = "done"
    /\ mbCalls # << >>
    /\ mbCalls[1].tag = "IpAddr"
    /\ sock.family = "IPV4"
    /\ IsNone(mbCalls[1].v4) /\ IsSome(mbCalls[1].v6)
    /\ result = "AddressUnavailable"

\* C8: a new_tcp_stream whose destination never answers returns ConnectTimeout
\* when the 10-second deadline expires: not earlier, and it does not wait for
\* ever; the error is not the one of a refused connect, the socket is
\* released at expiry, and a single connect was attempted.
C8_ConnectTimeout ==
    /\ [](result = "ConnectTimeout" =>
              /\ sPc = "done"
              /\ elapsed = CONNECT_TIMEOUT_SECS
              /\ ~sock.open
              /\ connects = 1)
    /\ [](connects <= 1)
    /\ [][(sPc = "connecting" /\ dest = "silent" /\ sPc' # "connecting")
             => /\ elapsed = CONNECT_TIMEOUT_SECS
                /\ result' = "ConnectTimeout"
                /\ result' # "ConnectionRefused"]_vars
    /\ (sPc = "connecting" /\ dest = "silent")
           ~> (sPc = "done" /\ result = "ConnectTimeout")

\* the connect to a silent destination has timed out
C8_Witness ==
    /\ sPc = "done"
    /\ dest = "silent"
    /\ result = "ConnectTimeout"
    /\ elapsed = CONNECT_TIMEOUT_SECS

\* C9: in new_udp_socket on a platform that binds interfaces: with a local
\* address and an interface the socket goes through
\* must_bind_socket_on_interface only and the local address is not bound;
\* with only a local address it is bound to it; with only an interface it is
\* bound through the interface (a device name leaves it bound to no address);
\* with neither no bind is made.
C9_UdpBindPrecedence ==
    (sPc = "done" /\ CallMade("udp") /\ os # "android") =>
        LET src == sCall.src
            iface == sCall.iface
        IN  /\ (IsSome(src) /\ IsSome(iface)) =>
                   /\ mbCalls = <<iface[1]>>
                   /\ \A k \in 1..Len(binds) :
                          binds[k] # [call |-> "bind", to |-> src[1]]
                   /\ sock.bound # src
            /\ (IsSome(src) /\ IsNone(iface)) =>
                   /\ mbCalls = << >>
                   /\ binds = <<[call |-> "bind", to |-> src[1]]>>
                   /\ result = "Ok" => sock.bound = src
            /\ (IsNone(src) /\ IsSome(iface)) =>
                   /\ mbCalls = <<iface[1]>>
                   /\ (iface[1].tag = "Name" /\ result = "Ok")
                          => sock.device = Some(iface[1].name) /\ IsNone(sock.bound)
            /\ (IsNone(src) /\ IsNone(iface)) =>
                   /\ mbCalls = << >>
                   /\ binds = << >>
                   /\ IsNone(sock.bound) /\ IsNone(sock.device)

\* a UDP socket was asked for with a local address and a device name, and
\* came back bound to the device only
C9_Witness ==
    /\ sPc = "done"
    /\ CallMade("udp")
    /\ result = "Ok"
    /\ IsSome(sCall.src)
    /\ IsSome(sCall.iface)
    /\ sCall.iface[1].tag = "Name"
    /\ sock.device = Some(sCall.iface[1].name)
    /\ IsNone(sock.bound)

FixedKeepalive ==
    [time |-> KEEPALIVE_TIME_SECS, interval |-> KEEPALIVE_INTERVAL_SECS,
     retries |-> KEEPALIVE_RETRIES]

\* C10 as stated: every socket on which new_tcp_stream attempts the connect
\* has, before the connect starts, keepalive enabled with the fixed timing
\* (idle 10s, interval 1s, probe count 3), no-delay enabled and non-blocking
\* mode set.
C10_Original ==
    sPc = "connecting" =>
        /\ sock.keepalive
        /\ sock.ka = Some(FixedKeepalive)
        /\ sock.nodelay
        /\ sock.nonblocking

\* C10 amended: every socket on which new_tcp_stream attempts the connect
\* has, before the connect starts, keepalive enabled, no-delay enabled and
\* non-blocking mode set, with the keepalive timing left at the OS default;
\* the fixed timing (idle 10s, interval 1s, probe count 3) is only ever set
\* by apply_tcp_options, on a stream that has already connected.
C10_OptionsBeforeConnect ==
    /\ sPc = "connecting" =>
           /\ sock.open
           /\ sock.keepalive
           /\ sock.nodelay
           /\ sock.nonblocking
           /\ IsNone(sock.ka)
    /\ IsSome(sock.ka) =>
           /\ sPc = "done"
           /\ result = "Ok"
           /\ sock.ka = Some(FixedKeepalive)

\* the connect is pending on a socket with keepalive on and no timing set
C10_Witness ==
    /\ sPc = "connecting"
    /\ elapsed > 0
    /\ sock.keepalive
    /\ sock.nodelay
    /\ IsNone(sock.ka)

====
